---- MODULE Spec2Model ----
(***************************************************************************)
(* A model of catalog_server/in_memory_catalog.py: the Catalog mapping,   *)
(* the lazy Keys/Values/Items sequences issued by its *_indexer            *)
(* properties, the interval arithmetic behind re-slicing, the query       *)
(* registry dispatch of Catalog.search and the full-text search handler.  *)
(*                                                                         *)
(* Python values are modelled as follows.  None is the empty tuple and an  *)
(* int n that may also be None is the 1-tuple <<n>>.  The outcome of a     *)
(* call is a record [exc, val, touched]: exc names the exception raised    *)
(* ("none" when the call returns), val is the returned value and touched   *)
(* lists, in order, the positions of the backing mapping whose value was   *)
(* constructed by the call (self._mapping[key], the observable side        *)
(* effect of a lazily constructing mapping).                               *)
(***************************************************************************)
EXTENDS Integers, Sequences, FiniteSets, TLC

VARIABLES
    mapping,    \* Catalog._mapping: sequence of [key, value] in iteration order
    metadata,   \* Catalog._metadata: sequence of <<key, node>> pairs
    registry,   \* Catalog.__query_registry: query shape -> handler name or None
    kind,       \* class of the current view: "keys", "values" or "items"
    chain,      \* the current view and its ancestors, root indexer view first
    op,         \* the last call made: [name, args]
    result,     \* its outcome: [exc, val, touched]
    runs        \* outcomes of the consecutive iterations of the current view

vars == <<mapping, metadata, registry, kind, chain, op, result, runs>>

----------------------------------------------------------------------------
(* Bounds of the model. *)

MaxLen == 2       \* largest number of entries of the backing mapping
MaxDepth == 2     \* largest number of re-slicings of an indexer view

\* Slice bounds and integer indexes range over Ints.
Ints == -1..MaxLen

----------------------------------------------------------------------------
(* Python values. *)

None == << >>
Some(n) == <<n>>
IsNone(x) == x = None
Val(x) == x[1]

Min(a, b) == IF a <= b THEN a ELSE b
Max(a, b) == IF a >= b THEN a ELSE b

Returns(v, t) == [exc |-> "none", val |-> v, touched |-> t]
Raises(e) == [exc |-> e, val |-> None, touched |-> << >>]

KeyPool == <<"a", "b", "c", "d", "e", "f">>
Kinds == {"keys", "values", "items"}
OptInts == {None} \cup {Some(i) : i \in Ints}

\* itertools.islice(seq, start, stop) for start, stop >= 0 (stop may be None):
\* the elements at 0-based positions k with start <= k < stop.
islice(seq, start, stop) ==
    LET last == IF IsNone(stop) THEN Len(seq) ELSE Min(Val(stop), Len(seq))
    IN  IF start >= last THEN << >> ELSE SubSeq(seq, start + 1, last)

----------------------------------------------------------------------------
(* Catalog: the mapping protocol and the positional primitives. *)

EmptyMetadata == << >>

\* Catalog.register_query(Text, full_text_search), run when the module is
\* imported.
InitialRegistry == "Text" :> "full_text_search"
LeafValue(k) == [id |-> k, metadata |-> EmptyMetadata]

Catalog_keys == [i \in 1..Len(mapping) |-> mapping[i].key]
Catalog_len == Len(mapping)

\* Position (0-based) of the entry self._mapping[key] reads.
PositionOf(key) == (CHOOSE i \in 1..Len(mapping) : mapping[i].key = key) - 1

\* Catalog.__getitem__: self._mapping[key], which constructs the value.
Catalog_getitem(key) == mapping[PositionOf(key) + 1].value

\* Mutant: the slice starts one key late.
Catalog_keys_slice_late(start, stop) ==
    Returns(islice(Catalog_keys, start + 1, stop), << >>)

Catalog_keys_slice(start, stop) ==
    Returns(islice(Catalog_keys, start, stop), << >>)

Catalog_items_slice(start, stop) ==
    LET ks == Catalog_keys_slice(start, stop).val
    IN  Returns([i \in 1..Len(ks) |-> <<ks[i], Catalog_getitem(ks[i])>>],
                [i \in 1..Len(ks) |-> PositionOf(ks[i])])

\* Mutant: the item is taken from list(self._mapping.items()), so that every
\* value is constructed.
Catalog_item_by_index_eager(index) ==
    IF index >= Catalog_len THEN Raises("IndexError")
    ELSE IF index < 0 THEN Raises("ValueError")
    ELSE Returns(<<Catalog_keys[index + 1], mapping[index + 1].value>>,
                 [i \in 1..Len(mapping) |-> i - 1])

Catalog_item_by_index(index) ==
    IF index >= Catalog_len THEN Raises("IndexError")
    ELSE IF index < 0 THEN Raises("ValueError")
    ELSE LET key == islice(Catalog_keys, index, Some(1 + index))[1]
         IN  Returns(<<key, Catalog_getitem(key)>>, <<PositionOf(key)>>)

----------------------------------------------------------------------------
(* Interval arithmetic. *)

\* Mutant: only the start is checked.
_slice_to_interval_start_only(start, stop) ==
    IF ~IsNone(start) /\ Val(start) < 0 THEN Raises("NotImplementedError")
    ELSE Returns([start |-> IF IsNone(start) THEN 0 ELSE Val(start),
                  stop |-> stop], << >>)

\* _slice_to_interval(index) for the slice index = slice(start, stop).
_slice_to_interval(start, stop) ==
    IF ~IsNone(start) /\ Val(start) < 0 THEN Raises("NotImplementedError")
    ELSE IF ~IsNone(stop) /\ Val(stop) < 0 THEN Raises("NotImplementedError")
    ELSE Returns([start |-> IF IsNone(start) THEN 0 ELSE Val(start),
                  stop |-> stop], << >>)

\* Mutant: b_stop is not shifted by a_start before the comparison with a_stop.
_compose_intervals_unshifted(a_start, a_stop, b_start, b_stop) ==
    LET start == (IF IsNone(a_start) THEN 0 ELSE Val(a_start))
                 + (IF IsNone(b_start) THEN 0 ELSE Val(b_start))
    IN  IF IsNone(a_stop)
        THEN IF IsNone(b_stop) THEN Returns([start |-> start, stop |-> None], << >>)
             ELSE IF IsNone(a_start) THEN Raises("TypeError")
             ELSE Returns([start |-> start,
                           stop |-> Some(Val(b_stop) + Val(a_start))], << >>)
        ELSE IF IsNone(b_stop) THEN Returns([start |-> start, stop |-> a_stop], << >>)
             ELSE Returns([start |-> start,
                           stop |-> Some(Min(Val(a_stop), Val(b_stop)))], << >>)

\* _compose_intervals(a, b): int + None raises TypeError.
_compose_intervals(a_start, a_stop, b_start, b_stop) ==
    LET start == IF IsNone(a_start)
                 THEN IF IsNone(b_start) THEN 0 ELSE Val(b_start)
                 ELSE IF IsNone(b_start) THEN Val(a_start)
                      ELSE Val(a_start) + Val(b_start)
    IN  IF IsNone(a_stop)
        THEN IF IsNone(b_stop) THEN Returns([start |-> start, stop |-> None], << >>)
             ELSE IF IsNone(a_start) THEN Raises("TypeError")
             ELSE Returns([start |-> start,
                           stop |-> Some(Val(b_stop) + Val(a_start))], << >>)
        ELSE IF IsNone(b_stop) THEN Returns([start |-> start, stop |-> a_stop], << >>)
             ELSE IF IsNone(a_start) THEN Raises("TypeError")
             ELSE Returns([start |-> start,
                           stop |-> Some(Min(Val(a_stop), Val(b_stop) + Val(a_start)))],
                          << >>)

----------------------------------------------------------------------------
(* CatalogBaseSequence and its three subclasses.  A view is a record       *)
(* [start, stop]; c[d] is a view whose ancestor is c[d-1], and the         *)
(* ancestor of c[1] is the Catalog.                                        *)

\* CatalogBaseSequence.__init__(ancestor, start, stop)
NewView(start, stop) == [start |-> start, stop |-> stop]
RootView == NewView(0, None)

\* len(x) of the builtin: a negative __len__ raises ValueError.
py_len(r) ==
    IF r.exc # "none" THEN r
    ELSE IF r.val < 0 THEN Raises("ValueError")
    ELSE r

RECURSIVE Seq_dunder_len(_, _)
Seq_dunder_len(c, d) ==
    LET anc == IF d = 1 THEN Returns(Catalog_len, << >>)
               ELSE py_len(Seq_dunder_len(c, d - 1))
    IN  IF anc.exc # "none" THEN anc
        ELSE LET len_ == anc.val - c[d].start
             IN  IF ~IsNone(c[d].stop) /\ len_ > Val(c[d].stop) - c[d].start
                 THEN Returns(Val(c[d].stop) - c[d].start, << >>)
                 ELSE Returns(len_, << >>)

RECURSIVE Seq_item_by_index(_, _, _)
Seq_item_by_index(c, d, index) ==
    IF d = 0 THEN Catalog_item_by_index(index)
    ELSE Seq_item_by_index(c, d - 1, index + c[d].start)

RECURSIVE Seq_items_slice(_, _, _, _)
Seq_items_slice(c, d, start, stop) ==
    IF d = 0 THEN Catalog_items_slice(start, stop)
    ELSE LET agg == _compose_intervals(Some(c[d].start), c[d].stop, Some(start), stop)
         IN  IF agg.exc # "none" THEN agg
             ELSE Seq_items_slice(c, d - 1, agg.val.start, agg.val.stop)

RECURSIVE Seq_keys_slice(_, _, _, _)
Seq_keys_slice(c, d, start, stop) ==
    IF d = 0 THEN Catalog_keys_slice(start, stop)
    ELSE LET agg == _compose_intervals(Some(c[d].start), c[d].stop, Some(start), stop)
         IN  IF agg.exc # "none" THEN agg
             ELSE Seq_keys_slice(c, d - 1, agg.val.start, agg.val.stop)

\* The kind-specific projection of a (key, value) item.
Project(k, item) ==
    IF k = "keys" THEN item[1] ELSE IF k = "values" THEN item[2] ELSE item

\* __iter__ of the three subclasses, run to exhaustion.
Seq_iter(k, c) ==
    LET d == Len(c)
    IN  IF k = "keys" THEN Seq_keys_slice(c, d - 1, c[d].start, c[d].stop)
        ELSE LET r == Seq_items_slice(c, d - 1, c[d].start, c[d].stop)
             IN  IF r.exc # "none" THEN r
                 ELSE Returns([i \in 1..Len(r.val) |-> Project(k, r.val[i])],
                              r.touched)

\* __getitem__ of the three subclasses with an int index.
Seq_getitem_int(k, c, index) ==
    LET r == Seq_item_by_index(c, Len(c), index)
    IN  IF r.exc # "none" THEN r ELSE Returns(Project(k, r.val), r.touched)

\* CatalogBaseSequence.__getitem__ with a slice index.
Seq_getitem_slice(start, stop) ==
    LET r == _slice_to_interval(start, stop)
    IN  IF r.exc # "none" THEN r
        ELSE Returns(NewView(r.val.start, r.val.stop), << >>)

----------------------------------------------------------------------------
(* Operations on the views. *)

Call(name, args) == [name |-> name, args |-> args]

\* Catalog.keys_indexer / values_indexer / items_indexer
Indexer(k) ==
    /\ kind' = k
    /\ chain' = <<RootView>>
    /\ op' = Call("indexer", <<k>>)
    /\ result' = Returns(RootView, << >>)
    /\ runs' = << >>
    /\ UNCHANGED <<mapping, metadata, registry>>

\* view[start:stop]
Slice(start, stop) ==
    /\ chain # << >>
    /\ Len(chain) <= MaxDepth
    /\ LET r == Seq_getitem_slice(start, stop)
       IN  /\ result' = r
           /\ chain' = IF r.exc = "none" THEN Append(chain, r.val) ELSE chain
    /\ op' = Call("slice", <<start, stop>>)
    /\ runs' = << >>
    /\ UNCHANGED <<mapping, metadata, registry, kind>>

\* view[index]
Index(index) ==
    /\ chain # << >>
    /\ result' = Seq_getitem_int(kind, chain, index)
    /\ op' = Call("index", <<index>>)
    /\ runs' = << >>
    /\ UNCHANGED <<mapping, metadata, registry, kind, chain>>

\* list(view); at most two consecutive iterations of a view are recorded.
Iterate ==
    /\ chain # << >>
    /\ Len(runs) < 2
    /\ LET r == Seq_iter(kind, chain)
       IN  /\ result' = r
           /\ runs' = Append(runs, r)
    /\ op' = Call("iter", << >>)
    /\ UNCHANGED <<mapping, metadata, registry, kind, chain>>

\* len(view)
Length ==
    /\ chain # << >>
    /\ result' = py_len(Seq_dunder_len(chain, Len(chain)))
    /\ op' = Call("len", << >>)
    /\ runs' = << >>
    /\ UNCHANGED <<mapping, metadata, registry, kind, chain>>

----------------------------------------------------------------------------
(* The views of a Catalog of 0..MaxLen opaque entries. *)

PlainMapping(n) == [i \in 1..n |-> [key |-> KeyPool[i], value |-> LeafValue(KeyPool[i])]]

Init ==
    /\ \E n \in 0..MaxLen : mapping = PlainMapping(n)
    /\ metadata = EmptyMetadata
    /\ registry = InitialRegistry
    /\ kind = "keys"
    /\ chain = << >>
    /\ op = Call("init", << >>)
    /\ result = Returns(None, << >>)
    /\ runs = << >>

Next ==
    \/ \E k \in Kinds : Indexer(k)
    \/ \E start \in OptInts, stop \in OptInts : Slice(start, stop)
    \/ \E index \in Ints : Index(index)
    \/ Iterate
    \/ Length

Spec == Init /\ [][Next]_vars

----------------------------------------------------------------------------
(* Reference semantics used to state the claims: Python list slicing       *)
(* lst[start:stop] with non-negative bounds, applied window after window   *)
(* to the positions 0 .. len(C)-1 of the Collection.                       *)

PyListSlice(seq, start, stop) ==
    LET hi == IF IsNone(stop) THEN Len(seq) ELSE Min(Val(stop), Len(seq))
        cnt == Max(0, hi - start)
    IN  [j \in 1..cnt |-> seq[start + j]]

RECURSIVE RefPositions(_, _)
RefPositions(c, d) ==
    IF d = 0 THEN [i \in 1..Len(mapping) |-> i - 1]
    ELSE PyListSlice(RefPositions(c, d - 1), c[d].start, c[d].stop)

\* The positions of C inside the window of the current view, in order.
Window == RefPositions(chain, Len(chain))

RECURSIVE SumStarts(_, _)
SumStarts(c, d) == IF d = 0 THEN 0 ELSE c[d].start + SumStarts(c, d - 1)

Range(seq) == {seq[i] : i \in DOMAIN seq}

----------------------------------------------------------------------------
(* Claims about the lazy views. *)

\* C1: for 0 <= p <= q <= len(C) and 0 <= r <= s <= q-p, iterating
\* C.items_indexer[p:q][r:s] yields exactly the (key, value) pairs, in the
\* same order, that iterating C.items_indexer[p+r : min(q, p+s)] yields.
C1_SliceComposition ==
    (/\ op.name = "iter" /\ kind = "items" /\ Len(chain) = 3
     /\ ~IsNone(chain[2].stop) /\ ~IsNone(chain[3].stop)
     /\ chain[2].start <= Val(chain[2].stop)
     /\ Val(chain[2].stop) <= Len(mapping)
     /\ chain[3].start <= Val(chain[3].stop)
     /\ Val(chain[3].stop) <= Val(chain[2].stop) - chain[2].start)
    => LET p == chain[2].start
           q == Val(chain[2].stop)
           r == chain[3].start
           s == Val(chain[3].stop)
           single == <<RootView, NewView(p + r, Some(Min(q, p + s)))>>
       IN  /\ result.exc = "none"
           /\ result.val = Seq_iter("items", single).val

C1_Witness ==
    /\ op.name = "iter" /\ kind = "items" /\ Len(chain) = 3
    /\ chain[2] = NewView(1, Some(2))
    /\ chain[3] = NewView(0, Some(1))
    /\ Len(mapping) = 2
    /\ result.val = << <<"b", LeafValue("b")>> >>

\* C2 (as claimed): for non-negative a <= b (b absent counts as len(C)),
\* len(C.keys_indexer[a:b]) = max(0, min(len(C), b) - a), also when
\* a > len(C).
C2_LenFormula ==
    (/\ op.name = "len" /\ kind = "keys" /\ Len(chain) = 2
     /\ (IsNone(chain[2].stop) \/ chain[2].start <= Val(chain[2].stop)))
    => LET a == chain[2].start
           b == IF IsNone(chain[2].stop) THEN Len(mapping) ELSE Val(chain[2].stop)
       IN  /\ result.exc = "none"
           /\ result.val = Max(0, Min(Len(mapping), b) - a)

\* C3 (as claimed): for a view V of any kind and depth, V[i] with
\* i >= len(V) fails with IndexError and returns no entry outside V's window.
C3_IndexBoundsChecked ==
    (op.name = "index" /\ op.args[1] >= Len(Window))
    => result.exc = "IndexError"

\* C4: a value of the backing mapping is constructed only at the position
\* indexed (the index plus the starts of the view and of its ancestors) or at
\* positions inside the window being iterated; indexing a root values/items
\* view at i constructs the value at i exactly once and no other; slicing,
\* len and creating an indexer construct nothing.
C4_OnlyAccessedValuesConstructed ==
    /\ op.name = "index" =>
         LET abs == op.args[1] + SumStarts(chain, Len(chain))
         IN  /\ result.touched = IF result.exc = "none" THEN <<abs>> ELSE << >>
             /\ (abs >= 0 /\ abs < Len(mapping)) => result.exc = "none"
    /\ op.name = "iter" =>
         /\ Range(result.touched) \subseteq Range(Window)
         /\ kind = "keys" => result.touched = << >>
         /\ kind # "keys" => result.touched = Window
    /\ op.name \in {"init", "indexer", "slice", "len"} => result.touched = << >>

C4_Witness ==
    /\ op = Call("index", <<1>>) /\ kind = "values" /\ Len(chain) = 1
    /\ Len(mapping) = 2
    /\ result = Returns(LeafValue("b"), <<1>>)

\* C5: iterating C.keys_indexer[a:b] (b possibly absent) yields exactly the
\* keys of C at positions a <= k < min(b, len(C)), in order, each once, and a
\* second iteration of the same view yields the same sequence.
C5_KeysSlice ==
    (op.name = "iter" /\ kind = "keys" /\ Len(chain) = 2)
    => LET a == chain[2].start
           hi == IF IsNone(chain[2].stop) THEN Len(mapping)
                 ELSE Min(Val(chain[2].stop), Len(mapping))
           expected == [j \in 1..Max(0, hi - a) |-> KeyPool[a + j]]
       IN  /\ runs # << >>
           /\ \A i \in DOMAIN runs :
                runs[i].exc = "none" /\ runs[i].val = expected

C5_Witness ==
    /\ op.name = "iter" /\ kind = "keys"
    /\ chain = <<RootView, NewView(1, Some(2))>>
    /\ Len(mapping) = 2
    /\ Len(runs) = 2
    /\ runs[2].val = <<"b">>

IsNegative(x) == ~IsNone(x) /\ Val(x) < 0

\* C6: slicing a view with a negative start or a negative stop raises
\* NotImplementedError at the slicing call, whatever the other bound: no view
\* is created and no entry is read.
C6_NegativeSliceRaises ==
    [][(op'.name = "slice" /\ (IsNegative(op'.args[1]) \/ IsNegative(op'.args[2])))
       => /\ result'.exc = "NotImplementedError"
          /\ result'.touched = << >>
          /\ chain' = chain]_vars

C6_Witness ==
    /\ op = Call("slice", <<Some(0), Some(-1)>>)
    /\ result.exc = "NotImplementedError"
    /\ Len(chain) = 2

----------------------------------------------------------------------------
(* _compose_intervals as a pure function: the four bounds are drawn in the *)
(* initial state and the function is applied to them.                      *)

MaxBound == 3     \* largest interval bound given to _compose_intervals

OptNats == {None} \cup {Some(i) : i \in 0..MaxBound}

Compose ==
    /\ op.name = "intervals"
    /\ op' = Call("compose", op.args)
    /\ result' = _compose_intervals(op.args[1], op.args[2], op.args[3], op.args[4])
    /\ UNCHANGED <<mapping, metadata, registry, kind, chain, runs>>

InitCompose ==
    /\ mapping = << >>
    /\ metadata = EmptyMetadata
    /\ registry = InitialRegistry
    /\ kind = "keys"
    /\ chain = << >>
    /\ \E a_start \in OptNats, a_stop \in OptNats, b_start \in OptNats, b_stop \in OptNats :
         op = Call("intervals", <<a_start, a_stop, b_start, b_stop>>)
    /\ result = Returns(None, << >>)
    /\ runs = << >>

SpecCompose == InitCompose /\ [][Compose]_vars

OrZero(x) == IF IsNone(x) THEN 0 ELSE Val(x)

\* C10 (as claimed): for bounds that are absent or non-negative,
\* compose((a_start, a_stop), (b_start, b_stop)) never fails and returns
\* start = a_start + b_start with an absent start counted as 0, and stop =
\* absent if both stops are absent, a_stop if only a_stop is present,
\* b_stop + a_start if only b_stop is present, min(a_stop, b_stop + a_start)
\* if both are present.
C10_ComposeTotal ==
    op.name = "compose"
    => LET a_start == op.args[1]
           a_stop == op.args[2]
           b_start == op.args[3]
           b_stop == op.args[4]
           stop == IF IsNone(a_stop) /\ IsNone(b_stop) THEN None
                   ELSE IF IsNone(b_stop) THEN a_stop
                   ELSE IF IsNone(a_stop) THEN Some(Val(b_stop) + OrZero(a_start))
                   ELSE Some(Min(Val(a_stop), Val(b_stop) + OrZero(a_start)))
       IN  /\ result.exc = "none"
           /\ result.val = [start |-> OrZero(a_start) + OrZero(b_start), stop |-> stop]

\* The same statement restricted to a present a_start (what the views pass).
ComposeWithStart ==
    (op.name = "compose" /\ ~IsNone(op.args[1])) => C10_ComposeTotal

----------------------------------------------------------------------------
(* Text and metadata.  A string is a sequence of characters.  A metadata   *)
(* node is a string, a mapping (a sequence of <<key, node>> pairs in       *)
(* iteration order), a list of nodes, or an int; the metadata of a value   *)
(* is a mapping.                                                           *)

MaxStr == 2       \* largest length of the text of a query

Chars == {"a", "B", " "}
Strings == UNION {[1..n -> Chars] : n \in 0..MaxStr}

Str(s) == [t |-> "str", s |-> s]
Map(items) == [t |-> "map", items |-> items]
List(elems) == [t |-> "list", elems |-> elems]
IntLeaf == [t |-> "int"]

\* str.lower()
LowerChar(c) == IF c = "A" THEN "a" ELSE IF c = "B" THEN "b" ELSE c
str_lower(s) == [i \in 1..Len(s) |-> LowerChar(s[i])]

\* str.split(): the maximal runs of non-whitespace characters, in order.
RECURSIVE str_split_from(_, _, _)
str_split_from(s, i, word) ==
    LET flush == IF word = << >> THEN << >> ELSE <<word>>
    IN  IF i > Len(s) THEN flush
        ELSE IF s[i] = " " THEN flush \o str_split_from(s, i + 1, << >>)
        ELSE str_split_from(s, i + 1, Append(word, s[i]))

str_split(s) == str_split_from(s, 1, << >>)

\* The str items of an iterable that is neither a str nor a mapping.
RECURSIVE str_items(_, _)
str_items(elems, i) ==
    IF i > Len(elems) THEN << >>
    ELSE (IF elems[i].t = "str" THEN <<elems[i].s>> ELSE << >>)
         \o str_items(elems, i + 1)

\* walk_string_values(tree, node) for node = items[i][1], and the loops over
\* the keys of a mapping.
RECURSIVE walk_node(_)
RECURSIVE walk_items(_, _)
walk_node(value) ==
    IF value.t = "str" THEN <<value.s>>
    ELSE IF value.t = "map" THEN walk_items(value.items, 1)
    ELSE IF value.t = "list" THEN str_items(value.elems, 1)
    ELSE << >>

walk_items(items, i) ==
    IF i > Len(items) THEN << >>
    ELSE walk_node(items[i][2]) \o walk_items(items, i + 1)

\* walk_string_values(tree) with node = None
walk_string_values(tree) == walk_items(tree, 1)

\* set(word for s in walk_string_values(md) for word in s.lower().split())
WordSet(strings) ==
    UNION {Range(str_split(str_lower(strings[i]))) : i \in DOMAIN strings}

\* type(catalog)(matches): a new Catalog without metadata.
NewCatalog(m) == [mapping |-> m, metadata |-> EmptyMetadata]

\* Mutant: a value is kept only when all its words are query words.
full_text_search_subset(query, catalog) ==
    LET query_words == Range(str_split(str_lower(query.text)))
        keep(e) == LET words == WordSet(walk_string_values(e.value.metadata))
                   IN  words # {} /\ words \subseteq query_words
    IN  Returns(NewCatalog(SelectSeq(catalog, keep)),
                [i \in 1..Len(catalog) |-> i - 1])

\* full_text_search(query, catalog); catalog.items() constructs every value.
full_text_search(query, catalog) ==
    LET query_words == Range(str_split(str_lower(query.text)))
        keep(e) == LET words == WordSet(walk_string_values(e.value.metadata))
                   IN  words \cap query_words # {}
    IN  Returns(NewCatalog(SelectSeq(catalog, keep)),
                [i \in 1..Len(catalog) |-> i - 1])

----------------------------------------------------------------------------
(* The query registry and Catalog.search.  The registry class lives in     *)
(* catalog_server.queries; it is modelled as a function from the shapes    *)
(* registered so far to their handlers.                                    *)

Shapes == {"Text", "Custom"}
Handlers == {"full_text_search", "select_all", "select_none"}

\* Handlers a caller may register besides full_text_search.
select_all(query, catalog) == Returns(NewCatalog(catalog), << >>)
select_none(query, catalog) == Returns(NewCatalog(<< >>), << >>)

Apply(handler, query, catalog) ==
    IF handler = "full_text_search" THEN full_text_search(query, catalog)
    ELSE IF handler = "select_all" THEN select_all(query, catalog)
    ELSE select_none(query, catalog)

\* QueryTranslationRegistry.register(shape, handler)
Registry_register(reg, shape, handler) ==
    [s \in DOMAIN reg \cup {shape} |-> IF s = shape THEN handler ELSE reg[s]]

\* QueryTranslationRegistry.__call__(query, catalog)
Registry_call(reg, query, catalog) ==
    IF query.shape \notin DOMAIN reg THEN Raises("UnsupportedQuery")
    ELSE Apply(reg[query.shape], query, catalog)

\* Mutant: search calls the full-text handler without consulting the registry.
Catalog_search_direct(query) == full_text_search(query, mapping)

\* Catalog.search(query)
Catalog_search(query) == Registry_call(registry, query, mapping)

Query(shape, text) == [shape |-> shape, text |-> text]

\* Catalog.register_query(shape, handler)
Register(shape, handler) ==
    /\ registry' = Registry_register(registry, shape, handler)
    /\ op' = Call("register", <<shape, handler>>)
    /\ result' = Returns(None, << >>)
    /\ UNCHANGED <<mapping, metadata, kind, chain, runs>>

\* catalog.search(query)
Search(query) ==
    /\ result' = Catalog_search(query)
    /\ op' = Call("search", <<query>>)
    /\ UNCHANGED <<mapping, metadata, registry, kind, chain, runs>>

----------------------------------------------------------------------------
(* Full-text search over Catalogs whose values carry metadata. *)

MetaStrings == {<<"A">>, <<"a", " ", "B">>}

\* The metadata a value may carry: a string under one key, beside an int,
\* inside a nested mapping, inside a list, inside a list of lists, inside a
\* mapping held by a list; or no metadata.
MetaOf(s) ==
    { << <<"fruit", Str(s)>> >>,
      << <<"size", IntLeaf>>, <<"animal", Str(s)>> >>,
      << <<"x", Map(<< <<"y", Str(s)>> >>)>> >>,
      << <<"x", List(<<IntLeaf, Str(s)>>)>> >>,
      << <<"x", List(<<List(<<Str(s)>>)>>)>> >>,
      << <<"x", List(<<Map(<< <<"y", Str(s)>> >>)>>)>> >> }

MetaPool == {EmptyMetadata} \cup UNION {MetaOf(s) : s \in MetaStrings}

Mappings ==
    UNION {{[i \in 1..n |-> [key |-> KeyPool[i],
                             value |-> [id |-> KeyPool[i], metadata |-> md[i]]]]
            : md \in [1..n -> MetaPool]} : n \in 0..MaxLen}

InitSearch ==
    /\ mapping \in Mappings
    /\ metadata = EmptyMetadata
    /\ registry = InitialRegistry
    /\ kind = "keys"
    /\ chain = << >>
    /\ op = Call("init", << >>)
    /\ result = Returns(None, << >>)
    /\ runs = << >>

NextSearch == \E text \in Strings : Search(Query("Text", text))

SpecSearch == InitSearch /\ [][NextSearch]_vars

\* The lower-cased whitespace-separated words of a string: the maximal runs
\* of non-blank characters.
RefWords(s) ==
    LET l == [i \in 1..Len(s) |-> LowerChar(s[i])]
    IN  {SubSeq(l, i, j) : <<i, j>> \in
           {w \in (1..Len(l)) \X (1..Len(l)) :
              /\ w[1] <= w[2]
              /\ \A k \in w[1]..w[2] : l[k] # " "
              /\ (w[1] = 1 \/ l[w[1] - 1] = " ")
              /\ (w[2] = Len(l) \/ l[w[2] + 1] = " ")}}

\* Every string leaf of a metadata node, at any depth of nesting.
RECURSIVE AllStringLeaves(_)
AllStringLeaves(node) ==
    IF node.t = "str" THEN {node.s}
    ELSE IF node.t = "map"
    THEN UNION {AllStringLeaves(node.items[i][2]) : i \in DOMAIN node.items}
    ELSE IF node.t = "list"
    THEN UNION {AllStringLeaves(node.elems[i]) : i \in DOMAIN node.elems}
    ELSE {}

\* The string leaves reached through mappings only, and the strings that are
\* themselves elements of a list reached that way.
RECURSIVE WalkedStringLeaves(_)
WalkedStringLeaves(node) ==
    IF node.t = "str" THEN {node.s}
    ELSE IF node.t = "map"
    THEN UNION {WalkedStringLeaves(node.items[i][2]) : i \in DOMAIN node.items}
    ELSE IF node.t = "list"
    THEN {node.elems[i].s : i \in {j \in DOMAIN node.elems : node.elems[j].t = "str"}}
    ELSE {}

Matches(leaves, text) == \E leaf \in leaves : RefWords(leaf) \cap RefWords(text) # {}

\* C8 (as claimed): C.search(Text(t)) returns a new Collection whose entries
\* are exactly the entries of C, in C's order and with C's values, for which
\* a word of some string leaf of value.metadata is a word of t.
C8_FullTextSearch ==
    op.name = "search"
    => LET keep(e) == Matches(AllStringLeaves(Map(e.value.metadata)), op.args[1].text)
       IN  /\ result.exc = "none"
           /\ result.val.mapping = SelectSeq(mapping, keep)

\* C8 (amended): the entries returned are exactly those, in C's order and with
\* C's values, for which a word of t is a word of a string leaf reached
\* through nested mappings or of a string that is directly an element of a
\* list reached that way; C itself is unchanged by the call.
C8_FullTextSearchWalked ==
    [][op'.name = "search"
       => LET keep(e) == Matches(WalkedStringLeaves(Map(e.value.metadata)), op'.args[1].text)
          IN  /\ result'.exc = "none"
              /\ result'.val.mapping = SelectSeq(mapping, keep)
              /\ mapping' = mapping]_vars

C8_Witness ==
    /\ op = Call("search", <<Query("Text", <<" ", "B">>)>>)
    /\ Len(mapping) = 2
    /\ mapping[1].value.metadata = << <<"fruit", Str(<<"A">>)>> >>
    /\ mapping[2].value.metadata = << <<"x", Map(<< <<"y", Str(<<"a", " ", "B">>)>> >>)>> >>
    /\ result.val.mapping = <<mapping[2]>>

----------------------------------------------------------------------------
(* Registration and dispatch on the example Catalog {"a": X, "b": Y} with  *)
(* X.metadata = {"fruit": "apple"} and Y.metadata = {"fruit": "banana"}.   *)

Apple == <<"a", "p", "p", "l", "e">>
Banana == <<"b", "a", "n", "a", "n", "a">>
Kiwi == <<"k", "i", "w", "i">>

ExampleMapping ==
    << [key |-> "a", value |-> [id |-> "X", metadata |-> << <<"fruit", Str(Apple)>> >>]],
       [key |-> "b", value |-> [id |-> "Y", metadata |-> << <<"fruit", Str(Banana)>> >>]] >>

InitRegistry ==
    /\ mapping \in {<< >>, ExampleMapping}
    /\ metadata = EmptyMetadata
    /\ registry = InitialRegistry
    /\ kind = "keys"
    /\ chain = << >>
    /\ op = Call("init", << >>)
    /\ result = Returns(None, << >>)
    /\ runs = << >>

NextRegistry ==
    \/ \E shape \in Shapes, handler \in Handlers : Register(shape, handler)
    \/ \E shape \in Shapes, text \in {Apple, Banana, Kiwi} : Search(Query(shape, text))

SpecRegistry == InitRegistry /\ [][NextRegistry]_vars

\* C7: search(query) fails with UnsupportedQuery while no handler is
\* registered for the query's shape; once a handler is registered the shape
\* stays registered, and search returns exactly handler(query, collection)
\* for the handler registered for the shape.
C7_SearchDispatch ==
    [][/\ DOMAIN registry \subseteq DOMAIN registry'
       /\ op'.name = "search"
          => LET query == op'.args[1]
             IN  IF query.shape \in DOMAIN registry
                 THEN result' = Apply(registry[query.shape], query, mapping)
                 ELSE result'.exc = "UnsupportedQuery"]_vars

C7_Witness ==
    /\ op = Call("search", <<Query("Custom", Kiwi)>>)
    /\ registry = ("Text" :> "full_text_search") @@ ("Custom" :> "select_all")
    /\ mapping = ExampleMapping
    /\ result = Returns(NewCatalog(ExampleMapping), << >>)

\* The end-to-end example: search(Text("apple")) returns only {"a": X}.
ExampleSearch ==
    (op = Call("search", <<Query("Text", Apple)>>) /\ mapping = ExampleMapping
     /\ registry["Text"] = "full_text_search")
    => result.val.mapping = <<ExampleMapping[1]>>

----------------------------------------------------------------------------
(* Catalog.metadata.  The property wraps self._metadata in a DictView      *)
(* (catalog_server.queries): a read-only mapping over the very dict the    *)
(* Catalog holds, whose item access hands out the stored objects           *)
(* themselves.  A view is [readonly, dict]; dict is the content of the     *)
(* underlying dict, which is shared with the Catalog.                      *)

HasKey(items, key) == \E i \in DOMAIN items : items[i][1] = key
GetKey(items, key) == items[CHOOSE i \in DOMAIN items : items[i][1] = key][2]

\* dict[key] = node: replaces in place, or inserts at the end.
SetKey(items, key, node) ==
    IF HasKey(items, key)
    THEN [i \in DOMAIN items |-> IF items[i][1] = key THEN <<key, node>> ELSE items[i]]
    ELSE Append(items, <<key, node>>)

\* del dict[key]
DelKey(items, key) == SelectSeq(items, LAMBDA it : it[1] # key)

\* Mutant: the property returns self._metadata itself.
Catalog_metadata_raw == [readonly |-> FALSE, dict |-> metadata]

\* Catalog.metadata: DictView(self._metadata)
Catalog_metadata == [readonly |-> TRUE, dict |-> metadata]

\* view[key] = node and del view[key]: a DictView defines neither.  Each
\* returns the outcome and the content of the underlying dict afterwards.
View_setitem(view, key, node) ==
    IF view.readonly THEN [out |-> Raises("TypeError"), dict |-> view.dict]
    ELSE [out |-> Returns(None, << >>), dict |-> SetKey(view.dict, key, node)]

View_delitem(view, key) ==
    IF view.readonly THEN [out |-> Raises("TypeError"), dict |-> view.dict]
    ELSE IF ~HasKey(view.dict, key) THEN [out |-> Raises("KeyError"), dict |-> view.dict]
    ELSE [out |-> Returns(None, << >>), dict |-> DelKey(view.dict, key)]

\* view[key][key2] = node: view[key] is the object stored in the dict.
View_nested_setitem(view, key, key2, node) ==
    IF ~HasKey(view.dict, key) THEN [out |-> Raises("KeyError"), dict |-> view.dict]
    ELSE LET obj == GetKey(view.dict, key)
         IN  IF obj.t # "map" THEN [out |-> Raises("TypeError"), dict |-> view.dict]
             ELSE [out |-> Returns(None, << >>),
                   dict |-> SetKey(view.dict, key, Map(SetKey(obj.items, key2, node)))]

\* view[key].append(node)
View_nested_append(view, key, node) ==
    IF ~HasKey(view.dict, key) THEN [out |-> Raises("KeyError"), dict |-> view.dict]
    ELSE LET obj == GetKey(view.dict, key)
         IN  IF obj.t # "list" THEN [out |-> Raises("AttributeError"), dict |-> view.dict]
             ELSE [out |-> Returns(None, << >>),
                   dict |-> SetKey(view.dict, key, List(Append(obj.elems, node)))]

\* dict(catalog.metadata); the first and the latest read are recorded.
ReadMetadata ==
    /\ LET r == Returns(Catalog_metadata.dict, << >>)
       IN  /\ result' = r
           /\ runs' = IF runs = << >> THEN <<r>> ELSE <<runs[1], r>>
    /\ op' = Call("metadata", << >>)
    /\ UNCHANGED <<mapping, metadata, registry, kind, chain>>

Mutate(name, args, r) ==
    /\ metadata' = r.dict
    /\ result' = r.out
    /\ op' = Call(name, args)
    /\ UNCHANGED <<mapping, registry, kind, chain, runs>>

ViewSetItem(key, node) ==
    Mutate("view_setitem", <<key, node>>, View_setitem(Catalog_metadata, key, node))

ViewDelItem(key) ==
    Mutate("view_delitem", <<key>>, View_delitem(Catalog_metadata, key))

NestedSetItem(key, key2, node) ==
    Mutate("nested_setitem", <<key, key2, node>>,
           View_nested_setitem(Catalog_metadata, key, key2, node))

NestedAppend(key, node) ==
    /\ HasKey(metadata, key) /\ GetKey(metadata, key).t = "list"
       => Len(GetKey(metadata, key).elems) < MaxLen
    /\ Mutate("nested_append", <<key, node>>,
              View_nested_append(Catalog_metadata, key, node))

MetaKeys == {"fruit", "x", "tags"}
NewNodes == {Str(<<"a">>), Str(<<"b">>)}

\* Catalog(mapping, metadata) for the metadata a caller may pass.
InitialMetadata ==
    { EmptyMetadata,
      << <<"fruit", Str(<<"a">>)>> >>,
      << <<"x", Map(<< <<"y", Str(<<"a">>)>> >>)>> >>,
      << <<"fruit", Str(<<"a">>)>>, <<"tags", List(<< >>)>> >> }

InitMeta ==
    /\ mapping = << >>
    /\ metadata \in InitialMetadata
    /\ registry = InitialRegistry
    /\ kind = "keys"
    /\ chain = << >>
    /\ op = Call("init", << >>)
    /\ result = Returns(None, << >>)
    /\ runs = << >>

NextMeta ==
    \/ ReadMetadata
    \/ \E key \in MetaKeys, node \in NewNodes : ViewSetItem(key, node)
    \/ \E key \in MetaKeys : ViewDelItem(key)
    \/ \E key \in MetaKeys, node \in NewNodes : NestedSetItem(key, "y", node)
    \/ \E key \in MetaKeys, node \in NewNodes : NestedAppend(key, node)

SpecMeta == InitMeta /\ [][NextMeta]_vars

====
